---- MODULE Spec2Model ----
(***************************************************************************)
(* Escrow and dispute-arbitration engine of the AgroPulse exchange         *)
(* (backend/app/routes/exchange.py).                                       *)
(*                                                                         *)
(* Every FastAPI handler is an `async def` without a single `await`, so   *)
(* on the event loop each request runs to completion before the next one  *)
(* starts: one handler = one atomic action.  A handler that raises         *)
(* HTTPException is modelled too: it records the error in `response`.      *)
(*                                                                         *)
(* Amounts are integers.  The inputs are chosen so that the float          *)
(* arithmetic of the code (total * 0.02, total * (pct / 100)) is exact.    *)
(* Fields that no handler ever reads are left out: the timestamps          *)
(* created_at, listed_at, expires_at, completed_at, ..., the quality grade *)
(* and the evidence copied onto a dispute.                                 *)
(***************************************************************************)
EXTENDS Integers, Sequences, FiniteSets, TLC

\* ------------------------------------------------------------------ bounds
MaxRecords == 2
MaxRecordsWide == 3
MaxTicks == 1

\* ------------------------------------------------------- program constants
MinConfidence == 60
AcceptanceWindowHours == 48
PlatformFeePct == 2
NoTime == -1
NoArbitrator == "none"
NoCaller == "none"

\* ------------------------------------------------------------------ inputs
AssetIds == {"a1"}
AssetQuantities == {2}
UnitPrices == {50}
ConfidenceScores == {59, 60}
RequestStatuses == {"draft", "active"}
TxQuantities == {1, 3}
SignedQuantities == {-1, 1, 3}
Buyers == {"b1"}
Callers == {"b1", "b2"}
Arbitrators == {"arb1", "arb2"}
Assignable == {"arb1"}
RefundPercentages == {0, 100}
PartialPercentages == {0, 50, 100}
UncheckedPercentages == {-50, 0, 100, 150}

\* -------------------------------------------------------------------- enums
AssetStatus == {"draft", "active", "in_escrow", "sold", "disputed", "cancelled"}
TransactionStatus ==
    {"pending", "funds_escrowed", "delivery_proof_submitted",
     "in_acceptance_window", "completed", "disputed", "refunded"}
DisputeStatus == {"open", "under_review", "resolved", "escalated"}

VARIABLES
    ASSETS_DB,        \* asset_id -> TokenizedAsset
    TRANSACTIONS_DB,  \* sequence of EscrowTransaction, transaction_id = index
    DISPUTES_DB,      \* sequence of DisputeCase, dispute_id = index
    now,              \* datetime.now(), in hours
    response,         \* outcome of the last request
    released,         \* history: transactions with a successful release
    frozen            \* history: transactions with a dispute opened in the acceptance
                      \* window and no dispute resolved since

vars == <<ASSETS_DB, TRANSACTIONS_DB, DISPUTES_DB, now, response, released, frozen>>
dbs == <<ASSETS_DB, TRANSACTIONS_DB, DISPUTES_DB>>

\* ----------------------------------------------------------------- helpers
Respond(op, tx, d, code, detail, payout, refund) ==
    [op |-> op, tx |-> tx, dispute |-> d, caller |-> NoCaller,
     code |-> code, detail |-> detail,
     seller_payout_kes |-> payout, refund_amount_kes |-> refund]

\* the reply to a request that names who makes it (buyer_id, arbitrator_id)
RespondTo(caller, reply) == [reply EXCEPT !.caller = caller]

HTTPException(op, tx, d, code, detail) ==
    /\ response' = Respond(op, tx, d, code, detail, 0, 0)
    /\ UNCHANGED <<ASSETS_DB, TRANSACTIONS_DB, DISPUTES_DB, now, released, frozen>>

HTTPExceptionTo(caller, op, tx, d, code, detail) ==
    /\ response' = RespondTo(caller, Respond(op, tx, d, code, detail, 0, 0))
    /\ UNCHANGED <<ASSETS_DB, TRANSACTIONS_DB, DISPUTES_DB, now, released, frozen>>

PutAsset(db, id, asset) ==
    [a \in (DOMAIN db) \cup {id} |-> IF a = id THEN asset ELSE db[a]]

SettledAssetStatus(asset) ==
    IF asset.available_quantity_kg <= 0 THEN "sold" ELSE "active"

Init ==
    /\ ASSETS_DB = <<>>
    /\ TRANSACTIONS_DB = <<>>
    /\ DISPUTES_DB = <<>>
    /\ now = 0
    /\ response = Respond("none", 0, 0, 200, "", 0, 0)
    /\ released = {}
    /\ frozen = {}

\* ------------------------------------------------------------- AssetLedger
create_asset_listing(id, qty, price, conf, reqStatus) ==
    IF conf < MinConfidence
    THEN HTTPException("create_asset", 0, 0, 400, "AI verification confidence too low")
    ELSE /\ ASSETS_DB' = PutAsset(ASSETS_DB, id,
                [quantity_kg |-> qty, available_quantity_kg |-> qty,
                 unit_price_kes |-> price, status |-> reqStatus])
         /\ response' = Respond("create_asset", 0, 0, 200, "", 0, 0)
         /\ UNCHANGED <<TRANSACTIONS_DB, DISPUTES_DB, now, released, frozen>>

publish_asset(id) ==
    IF id \notin DOMAIN ASSETS_DB
    THEN HTTPException("publish", 0, 0, 404, "Asset not found")
    ELSE /\ ASSETS_DB' = [ASSETS_DB EXCEPT ![id].status = "active"]
         /\ response' = Respond("publish", 0, 0, 200, "", 0, 0)
         /\ UNCHANGED <<TRANSACTIONS_DB, DISPUTES_DB, now, released, frozen>>

\* ------------------------------------------------------- TransactionEngine
\* the quantity check left out
InsufficientQuantity_Never(quantity_kg, asset) ==
    FALSE

InsufficientQuantity(quantity_kg, asset) ==
    quantity_kg > asset.available_quantity_kg

\* the decrement lost
Decremented_Lost(asset, quantity_kg) ==
    asset.available_quantity_kg

Decremented(asset, quantity_kg) ==
    asset.available_quantity_kg - quantity_kg

\* the asset counted as empty only below zero
FullyReserved_BelowZero(available) ==
    available < 0

FullyReserved(available) ==
    available <= 0

create_escrow_transaction(asset_id, buyer_id, quantity_kg) ==
    IF asset_id \notin DOMAIN ASSETS_DB
    THEN HTTPException("create_transaction", 0, 0, 404, "Asset not found")
    ELSE LET asset == ASSETS_DB[asset_id] IN
    IF asset.status # "active"
    THEN HTTPException("create_transaction", 0, 0, 400, "Asset not available for sale")
    ELSE IF InsufficientQuantity(quantity_kg, asset)
    THEN HTTPException("create_transaction", 0, 0, 400, "Insufficient quantity")
    ELSE LET total_amount == quantity_kg * asset.unit_price_kes
             platform_fee == (total_amount * PlatformFeePct) \div 100
             seller_payout == total_amount - platform_fee
             available == Decremented(asset, quantity_kg)
             transaction ==
                [asset_id |-> asset_id, buyer_id |-> buyer_id,
                 quantity_kg |-> quantity_kg,
                 total_amount_kes |-> total_amount,
                 funds_locked |-> FALSE,
                 acceptance_window_start |-> NoTime,
                 acceptance_window_end |-> NoTime,
                 buyer_accepted |-> FALSE,
                 status |-> "pending",
                 seller_payout_amount |-> seller_payout,
                 platform_fee_kes |-> platform_fee]
         IN /\ ASSETS_DB' = [ASSETS_DB EXCEPT ![asset_id] =
                    [@ EXCEPT !.available_quantity_kg = available,
                              !.status = IF FullyReserved(available)
                                        THEN "in_escrow" ELSE @]]
            /\ TRANSACTIONS_DB' = Append(TRANSACTIONS_DB, transaction)
            /\ response' = Respond("create_transaction", Len(TRANSACTIONS_DB) + 1, 0,
                                   200, "", 0, 0)
            /\ UNCHANGED <<DISPUTES_DB, now, released, frozen>>

\* escrow_funds without the check of funds_locked
escrow_funds_NoLockCheck(transaction_id) ==
    IF transaction_id \notin DOMAIN TRANSACTIONS_DB
    THEN HTTPException("escrow_funds", transaction_id, 0, 404, "Transaction not found")
    ELSE LET transaction == TRANSACTIONS_DB[transaction_id] IN
         /\ TRANSACTIONS_DB' = [TRANSACTIONS_DB EXCEPT ![transaction_id] =
                [@ EXCEPT !.funds_locked = TRUE, !.status = "funds_escrowed"]]
         /\ ASSETS_DB' = [ASSETS_DB EXCEPT ![transaction.asset_id].status = "in_escrow"]
         /\ response' = Respond("escrow_funds", transaction_id, 0, 200, "", 0, 0)
         /\ UNCHANGED <<DISPUTES_DB, now, released, frozen>>

escrow_funds(transaction_id) ==
    IF transaction_id \notin DOMAIN TRANSACTIONS_DB
    THEN HTTPException("escrow_funds", transaction_id, 0, 404, "Transaction not found")
    ELSE LET transaction == TRANSACTIONS_DB[transaction_id] IN
    IF transaction.funds_locked
    THEN HTTPException("escrow_funds", transaction_id, 0, 400, "Funds already escrowed")
    ELSE /\ TRANSACTIONS_DB' = [TRANSACTIONS_DB EXCEPT ![transaction_id] =
                [@ EXCEPT !.funds_locked = TRUE, !.status = "funds_escrowed"]]
         /\ ASSETS_DB' = [ASSETS_DB EXCEPT ![transaction.asset_id].status = "in_escrow"]
         /\ response' = Respond("escrow_funds", transaction_id, 0, 200, "", 0, 0)
         /\ UNCHANGED <<DISPUTES_DB, now, released, frozen>>

\* submit_delivery_proof that ends in the wrong member of TransactionStatus
submit_delivery_proof_Completes(transaction_id) ==
    IF transaction_id \notin DOMAIN TRANSACTIONS_DB
    THEN HTTPException("submit_delivery_proof", transaction_id, 0, 404,
                       "Transaction not found")
    ELSE LET transaction == TRANSACTIONS_DB[transaction_id] IN
    IF ~transaction.funds_locked
    THEN HTTPException("submit_delivery_proof", transaction_id, 0, 400,
                       "Funds not yet escrowed")
    ELSE /\ TRANSACTIONS_DB' = [TRANSACTIONS_DB EXCEPT ![transaction_id] =
                [@ EXCEPT !.acceptance_window_start = now,
                          !.acceptance_window_end = now + AcceptanceWindowHours,
                          !.status = "completed"]]
         /\ response' = Respond("submit_delivery_proof", transaction_id, 0, 200, "", 0, 0)
         /\ UNCHANGED <<ASSETS_DB, DISPUTES_DB, now, released, frozen>>

submit_delivery_proof(transaction_id) ==
    IF transaction_id \notin DOMAIN TRANSACTIONS_DB
    THEN HTTPException("submit_delivery_proof", transaction_id, 0, 404,
                       "Transaction not found")
    ELSE LET transaction == TRANSACTIONS_DB[transaction_id] IN
    IF ~transaction.funds_locked
    THEN HTTPException("submit_delivery_proof", transaction_id, 0, 400,
                       "Funds not yet escrowed")
    ELSE \* status is set to delivery_proof_submitted and, in the same handler,
         \* overwritten with in_acceptance_window
         /\ TRANSACTIONS_DB' = [TRANSACTIONS_DB EXCEPT ![transaction_id] =
                [@ EXCEPT !.acceptance_window_start = now,
                          !.acceptance_window_end = now + AcceptanceWindowHours,
                          !.status = "in_acceptance_window"]]
         /\ response' = Respond("submit_delivery_proof", transaction_id, 0, 200, "", 0, 0)
         /\ UNCHANGED <<ASSETS_DB, DISPUTES_DB, now, released, frozen>>

\* buyer_accept_delivery without the check of the caller
buyer_accept_delivery_AnyCaller(transaction_id, buyer_id) ==
    IF transaction_id \notin DOMAIN TRANSACTIONS_DB
    THEN HTTPExceptionTo(buyer_id, "buyer_accept", transaction_id, 0, 404, "Transaction not found")
    ELSE LET transaction == TRANSACTIONS_DB[transaction_id] IN
    IF transaction.status # "in_acceptance_window"
    THEN HTTPExceptionTo(buyer_id, "buyer_accept", transaction_id, 0, 400, "Not in acceptance window")
    ELSE /\ TRANSACTIONS_DB' = [TRANSACTIONS_DB EXCEPT ![transaction_id] =
                [@ EXCEPT !.buyer_accepted = TRUE, !.status = "completed"]]
         /\ ASSETS_DB' = [ASSETS_DB EXCEPT ![transaction.asset_id].status =
                SettledAssetStatus(ASSETS_DB[transaction.asset_id])]
         /\ response' = RespondTo(buyer_id,
                Respond("buyer_accept", transaction_id, 0, 200, "",
                        transaction.seller_payout_amount, 0))
         /\ released' = released \cup {transaction_id}
         /\ UNCHANGED <<DISPUTES_DB, now, frozen>>

buyer_accept_delivery(transaction_id, buyer_id) ==
    IF transaction_id \notin DOMAIN TRANSACTIONS_DB
    THEN HTTPExceptionTo(buyer_id, "buyer_accept", transaction_id, 0, 404, "Transaction not found")
    ELSE LET transaction == TRANSACTIONS_DB[transaction_id] IN
    IF transaction.buyer_id # buyer_id
    THEN HTTPExceptionTo(buyer_id, "buyer_accept", transaction_id, 0, 403, "Unauthorized")
    ELSE IF transaction.status # "in_acceptance_window"
    THEN HTTPExceptionTo(buyer_id, "buyer_accept", transaction_id, 0, 400, "Not in acceptance window")
    ELSE /\ TRANSACTIONS_DB' = [TRANSACTIONS_DB EXCEPT ![transaction_id] =
                [@ EXCEPT !.buyer_accepted = TRUE, !.status = "completed"]]
         /\ ASSETS_DB' = [ASSETS_DB EXCEPT ![transaction.asset_id].status =
                SettledAssetStatus(ASSETS_DB[transaction.asset_id])]
         /\ response' = RespondTo(buyer_id,
                Respond("buyer_accept", transaction_id, 0, 200, "",
                        transaction.seller_payout_amount, 0))
         /\ released' = released \cup {transaction_id}
         /\ UNCHANGED <<DISPUTES_DB, now, frozen>>

\* the window counted as open at the very hour it ends
WindowOpen_Inclusive(transaction) ==
    now <= transaction.acceptance_window_end

WindowOpen(transaction) ==
    now < transaction.acceptance_window_end

\* auto_release_on_expiry recording the implicit acceptance before it looks
\* at the window
auto_release_on_expiry_EarlyWrite(transaction_id) ==
    IF transaction_id \notin DOMAIN TRANSACTIONS_DB
    THEN HTTPException("auto_release", transaction_id, 0, 404, "Transaction not found")
    ELSE LET transaction == TRANSACTIONS_DB[transaction_id] IN
    IF transaction.status # "in_acceptance_window"
    THEN HTTPException("auto_release", transaction_id, 0, 400, "Not in acceptance window")
    ELSE IF WindowOpen(transaction)
    THEN /\ TRANSACTIONS_DB' = [TRANSACTIONS_DB EXCEPT
                ![transaction_id].buyer_accepted = TRUE]
         /\ response' = Respond("auto_release", transaction_id, 0, 400,
                                "Acceptance window not expired", 0, 0)
         /\ UNCHANGED <<ASSETS_DB, DISPUTES_DB, now, released, frozen>>
    ELSE /\ TRANSACTIONS_DB' = [TRANSACTIONS_DB EXCEPT ![transaction_id] =
                [@ EXCEPT !.status = "completed", !.buyer_accepted = TRUE]]
         /\ ASSETS_DB' = [ASSETS_DB EXCEPT ![transaction.asset_id].status =
                SettledAssetStatus(ASSETS_DB[transaction.asset_id])]
         /\ response' = Respond("auto_release", transaction_id, 0, 200, "",
                                transaction.seller_payout_amount, 0)
         /\ released' = released \cup {transaction_id}
         /\ UNCHANGED <<DISPUTES_DB, now, frozen>>

auto_release_on_expiry(transaction_id) ==
    IF transaction_id \notin DOMAIN TRANSACTIONS_DB
    THEN HTTPException("auto_release", transaction_id, 0, 404, "Transaction not found")
    ELSE LET transaction == TRANSACTIONS_DB[transaction_id] IN
    IF transaction.status # "in_acceptance_window"
    THEN HTTPException("auto_release", transaction_id, 0, 400, "Not in acceptance window")
    ELSE IF WindowOpen(transaction)
    THEN HTTPException("auto_release", transaction_id, 0, 400,
                       "Acceptance window not expired")
    ELSE /\ TRANSACTIONS_DB' = [TRANSACTIONS_DB EXCEPT ![transaction_id] =
                [@ EXCEPT !.status = "completed", !.buyer_accepted = TRUE]]
         /\ ASSETS_DB' = [ASSETS_DB EXCEPT ![transaction.asset_id].status =
                SettledAssetStatus(ASSETS_DB[transaction.asset_id])]
         /\ response' = Respond("auto_release", transaction_id, 0, 200, "",
                                transaction.seller_payout_amount, 0)
         /\ released' = released \cup {transaction_id}
         /\ UNCHANGED <<DISPUTES_DB, now, frozen>>

\* ------------------------------------------------------ DisputeArbitration
\* create_dispute freezing every transaction on the disputed transaction's asset
create_dispute_WholeAsset(transaction_id) ==
    IF transaction_id \notin DOMAIN TRANSACTIONS_DB
    THEN HTTPException("open_dispute", transaction_id, 0, 404, "Transaction not found")
    ELSE LET dispute ==
                [transaction_id |-> transaction_id, status |-> "open",
                 assigned_arbitrator_id |-> NoArbitrator,
                 refund_amount_kes |-> 0]
         IN /\ TRANSACTIONS_DB' =
                    [t \in DOMAIN TRANSACTIONS_DB |->
                        IF TRANSACTIONS_DB[t].asset_id
                                = TRANSACTIONS_DB[transaction_id].asset_id
                        THEN [TRANSACTIONS_DB[t] EXCEPT !.status = "disputed"]
                        ELSE TRANSACTIONS_DB[t]]
            /\ DISPUTES_DB' = Append(DISPUTES_DB, dispute)
            /\ frozen' = IF TRANSACTIONS_DB[transaction_id].status = "in_acceptance_window"
                          THEN frozen \cup {transaction_id}
                          ELSE frozen
            /\ response' = Respond("open_dispute", transaction_id, Len(DISPUTES_DB) + 1,
                                   200, "", 0, 0)
            /\ UNCHANGED <<ASSETS_DB, now, released>>

create_dispute(transaction_id) ==
    IF transaction_id \notin DOMAIN TRANSACTIONS_DB
    THEN HTTPException("open_dispute", transaction_id, 0, 404, "Transaction not found")
    ELSE LET dispute ==
                [transaction_id |-> transaction_id, status |-> "open",
                 assigned_arbitrator_id |-> NoArbitrator,
                 refund_amount_kes |-> 0]
         IN /\ TRANSACTIONS_DB' = [TRANSACTIONS_DB EXCEPT ![transaction_id].status = "disputed"]
            /\ DISPUTES_DB' = Append(DISPUTES_DB, dispute)
            /\ frozen' = IF TRANSACTIONS_DB[transaction_id].status = "in_acceptance_window"
                          THEN frozen \cup {transaction_id}
                          ELSE frozen
            /\ response' = Respond("open_dispute", transaction_id, Len(DISPUTES_DB) + 1,
                                   200, "", 0, 0)
            /\ UNCHANGED <<ASSETS_DB, now, released>>

assign_arbitrator(dispute_id, arbitrator_id) ==
    IF dispute_id \notin DOMAIN DISPUTES_DB
    THEN HTTPException("assign_arbitrator", 0, dispute_id, 404, "Dispute not found")
    ELSE /\ DISPUTES_DB' = [DISPUTES_DB EXCEPT ![dispute_id] =
                [@ EXCEPT !.assigned_arbitrator_id = arbitrator_id,
                          !.status = "under_review"]]
         /\ response' = Respond("assign_arbitrator", DISPUTES_DB[dispute_id].transaction_id,
                                dispute_id, 200, "", 0, 0)
         /\ UNCHANGED <<ASSETS_DB, TRANSACTIONS_DB, now, released, frozen>>

\* the refund taken as the whole total whatever the percentage
RefundAmount_Whole(transaction, refund_percentage) ==
    transaction.total_amount_kes

RefundAmount(transaction, refund_percentage) ==
    (transaction.total_amount_kes * refund_percentage) \div 100

\* the platform fee not deducted
SellerPayout_NoFee(transaction, refund_amount) ==
    transaction.total_amount_kes - refund_amount

SellerPayout(transaction, refund_amount) ==
    transaction.total_amount_kes - refund_amount - transaction.platform_fee_kes

\* any refund at all counted as a full refund
FullRefund_AnyRefund(refund_percentage) ==
    refund_percentage > 0

FullRefund(refund_percentage) ==
    refund_percentage = 100

\* anyone let through while no arbitrator is assigned
UnauthorizedArbitrator_OnceAssigned(dispute, arbitrator_id) ==
    dispute.assigned_arbitrator_id \notin {arbitrator_id, NoArbitrator}

UnauthorizedArbitrator(dispute, arbitrator_id) ==
    dispute.assigned_arbitrator_id # arbitrator_id

resolve_dispute(dispute_id, arbitrator_id, refund_percentage) ==
    IF dispute_id \notin DOMAIN DISPUTES_DB
    THEN HTTPExceptionTo(arbitrator_id, "resolve_dispute", 0, dispute_id, 404, "Dispute not found")
    ELSE LET dispute == DISPUTES_DB[dispute_id] IN
    IF UnauthorizedArbitrator(dispute, arbitrator_id)
    THEN HTTPExceptionTo(arbitrator_id, "resolve_dispute", dispute.transaction_id, dispute_id, 403,
                       "Unauthorized arbitrator")
    ELSE LET transaction == TRANSACTIONS_DB[dispute.transaction_id]
             refund_amount == RefundAmount(transaction, refund_percentage)
             seller_payout == SellerPayout(transaction, refund_amount)
         IN /\ DISPUTES_DB' = [DISPUTES_DB EXCEPT ![dispute_id] =
                    [@ EXCEPT !.refund_amount_kes = refund_amount,
                              !.status = "resolved"]]
            /\ TRANSACTIONS_DB' = [TRANSACTIONS_DB EXCEPT ![dispute.transaction_id] =
                    IF FullRefund(refund_percentage)
                    THEN [@ EXCEPT !.status = "refunded"]
                    ELSE [@ EXCEPT !.status = "completed",
                                   !.seller_payout_amount = seller_payout]]
            /\ response' = RespondTo(arbitrator_id,
                    Respond("resolve_dispute", dispute.transaction_id, dispute_id,
                            200, "", seller_payout, refund_amount))
            /\ released' = released \cup {dispute.transaction_id}
            /\ frozen' = frozen \ {dispute.transaction_id}
            /\ UNCHANGED <<ASSETS_DB, now>>

\* ------------------------------------------------------------------- clock
\* datetime.now() is read only to open a window (now + 48 h) and to compare
\* with a window's end, so time is let pass in steps of one window and only
\* while some window is still open.
Tick ==
    /\ now < MaxTicks * AcceptanceWindowHours
    /\ \E t \in DOMAIN TRANSACTIONS_DB : now < TRANSACTIONS_DB[t].acceptance_window_end
    /\ now' = now + AcceptanceWindowHours
    /\ UNCHANGED <<ASSETS_DB, TRANSACTIONS_DB, DISPUTES_DB, response, released, frozen>>

\* ---------------------------------------------------------- specifications
\* The handlers have no capacity limit; a specification bounds the number of
\* records (transactions and disputes together) it lets the clients create:
\* a request that would store one record too many is not made, a request that
\* is rejected always is.  Requests name the ids that exist and, where the
\* specification asks for it, one id that does not.
AssetRequestIds(withUnknown) ==
    IF withUnknown THEN AssetIds \cup {"a0"} ELSE AssetIds
TxRequestIds(withUnknown) ==
    IF withUnknown THEN 1..(Len(TRANSACTIONS_DB) + 1) ELSE DOMAIN TRANSACTIONS_DB
DisputeRequestIds(withUnknown) ==
    IF withUnknown THEN 1..(Len(DISPUTES_DB) + 1) ELSE DOMAIN DISPUTES_DB
WithinRecords(maxRecords) == Len(TRANSACTIONS_DB') + Len(DISPUTES_DB') <= maxRecords

NextOf(maxRecords, txQuantities, assignable, percentages, withUnknown) ==
    \/ \E id \in AssetIds, q \in AssetQuantities, p \in UnitPrices,
          c \in ConfidenceScores, s \in RequestStatuses :
            create_asset_listing(id, q, p, c, s)
    \/ \E id \in AssetRequestIds(withUnknown) : publish_asset(id)
    \/ \E id \in AssetRequestIds(withUnknown), b \in Buyers, q \in txQuantities :
            create_escrow_transaction(id, b, q) /\ WithinRecords(maxRecords)
    \/ \E t \in TxRequestIds(withUnknown) : escrow_funds(t)
    \/ \E t \in TxRequestIds(withUnknown) : submit_delivery_proof(t)
    \/ \E t \in TxRequestIds(withUnknown), b \in Callers : buyer_accept_delivery(t, b)
    \/ \E t \in TxRequestIds(withUnknown) : auto_release_on_expiry(t)
    \/ \E t \in TxRequestIds(withUnknown) : create_dispute(t) /\ WithinRecords(maxRecords)
    \/ \E d \in DisputeRequestIds(withUnknown), a \in assignable : assign_arbitrator(d, a)
    \/ \E d \in DisputeRequestIds(withUnknown), a \in Arbitrators,
          p \in percentages :
            resolve_dispute(d, a, p)
    \/ Tick

\* Requests on the records that exist.
Next == NextOf(MaxRecords, TxQuantities, Assignable, RefundPercentages, FALSE)
Spec == Init /\ [][Next]_vars

NextWide == NextOf(MaxRecordsWide, TxQuantities, Assignable, RefundPercentages, FALSE)
SpecWide == Init /\ [][NextWide]_vars

\* Requests with a negative quantity_kg (the query parameter is any float).
NextSigned == NextOf(MaxRecords, SignedQuantities, Assignable, RefundPercentages, FALSE)
SpecSigned == Init /\ [][NextSigned]_vars

\* Every arbitrator can be assigned, and assigned again.
NextReassign == NextOf(MaxRecords, TxQuantities, Arbitrators, RefundPercentages, FALSE)
SpecReassign == Init /\ [][NextReassign]_vars

\* Partial refunds as well as none and full.
NextPartial == NextOf(MaxRecords, TxQuantities, Assignable, PartialPercentages, FALSE)
SpecPartial == Init /\ [][NextPartial]_vars

\* Percentages outside 0..100 (the query parameter is any float).
NextUnchecked == NextOf(MaxRecords, TxQuantities, Assignable, UncheckedPercentages, FALSE)
SpecUnchecked == Init /\ [][NextUnchecked]_vars

\* The scheduler and the clock.  A release that is due is a call of
\* auto_release_on_expiry that succeeds; the scheduler keeps calling it on the
\* transactions that are due and time keeps passing.  The clock of a
\* specification stops after MaxTicks windows, so a window that it could not
\* see the end of is not opened.
AutoReleaseDue(t) == auto_release_on_expiry(t) /\ response'.code = 200
WithinClock ==
    \A t \in DOMAIN TRANSACTIONS_DB' :
        TRANSACTIONS_DB'[t].acceptance_window_end <= MaxTicks * AcceptanceWindowHours
NextScheduled == Next /\ WithinClock
SpecScheduled ==
    /\ Init /\ [][NextScheduled]_vars
    /\ WF_vars(Tick)
    /\ \A t \in 1..MaxRecords : SF_vars(AutoReleaseDue(t))

\* Requests that also name an asset, a transaction or a dispute that does not
\* exist.
NextUnknown == NextOf(MaxRecords, TxQuantities, Assignable, RefundPercentages, TRUE)
SpecUnknown == Init /\ [][NextUnknown]_vars

\* ================================================================== claims
\* A step is a call of handler `op` when the clock stands still and the
\* response it leaves is that handler's.
Called(op) == now' = now /\ response'.op = op
Succeeded == response'.code = 200
ReleaseOps == {"buyer_accept", "auto_release", "resolve_dispute"}

RECURSIVE SumQuantity(_, _)
SumQuantity(asset_id, n) ==
    IF n = 0 THEN 0
    ELSE SumQuantity(asset_id, n - 1)
         + (IF TRANSACTIONS_DB[n].asset_id = asset_id
            THEN TRANSACTIONS_DB[n].quantity_kg ELSE 0)

\* No handler ever adds quantity back to an asset, so every transaction
\* created on an asset is still an active reservation.
ActiveReservations(asset_id) == SumQuantity(asset_id, Len(TRANSACTIONS_DB))

UnresolvedDisputes(t) ==
    {d \in DOMAIN DISPUTES_DB :
        DISPUTES_DB[d].transaction_id = t /\ DISPUTES_DB[d].status # "resolved"}

\* The graph of the specification.  submit_delivery_proof walks the two edges
\* funds_escrowed -> delivery_proof_submitted -> in_acceptance_window inside
\* one handler, so the pair of them counts as allowed too.
AllowedEdges ==
    {<<"pending", "funds_escrowed">>,
     <<"funds_escrowed", "delivery_proof_submitted">>,
     <<"delivery_proof_submitted", "in_acceptance_window">>,
     <<"funds_escrowed", "in_acceptance_window">>,
     <<"in_acceptance_window", "completed">>,
     <<"in_acceptance_window", "disputed">>,
     <<"in_acceptance_window", "refunded">>,
     <<"disputed", "completed">>,
     <<"disputed", "refunded">>}

\* C1: a transaction has at most one successful payout-releasing step
\* (buyer_accept, auto_release or resolve_dispute): no such step succeeds on a
\* transaction that was already released.
C1_NoDoubleRelease ==
    [][\A t \in DOMAIN TRANSACTIONS_DB :
        (/\ \E op \in ReleaseOps : Called(op)
         /\ response'.tx = t
         /\ Succeeded) => t \notin released]_vars

\* C2: for every asset, available_quantity_kg plus the quantities of its
\* active reservations equals its quantity_kg.
C2_NoOversell ==
    \A a \in DOMAIN ASSETS_DB :
        ASSETS_DB[a].available_quantity_kg + ActiveReservations(a)
            = ASSETS_DB[a].quantity_kg

\* C3: a transaction becomes completed only in a successful buyer_accept,
\* auto_release or resolve_dispute on it, and refunded only in a successful
\* resolve_dispute on it; a new transaction is neither.
C3_ReleaseOnlyByItsOperations ==
    [][/\ \A t \in DOMAIN TRANSACTIONS_DB :
            /\ (/\ TRANSACTIONS_DB'[t].status = "completed"
                /\ TRANSACTIONS_DB[t].status # "completed")
                => /\ \E op \in ReleaseOps : Called(op)
                   /\ response'.tx = t
                   /\ Succeeded
            /\ (/\ TRANSACTIONS_DB'[t].status = "refunded"
                /\ TRANSACTIONS_DB[t].status # "refunded")
                => /\ Called("resolve_dispute")
                   /\ response'.tx = t
                   /\ Succeeded
       /\ \A t \in (DOMAIN TRANSACTIONS_DB') \ (DOMAIN TRANSACTIONS_DB) :
            TRANSACTIONS_DB'[t].status \notin {"completed", "refunded"}]_vars

C3_Witness ==
    /\ response.op = "resolve_dispute"
    /\ response.code = 200
    /\ response.tx \in DOMAIN TRANSACTIONS_DB
    /\ TRANSACTIONS_DB[response.tx].status = "refunded"

\* C4: while a transaction is frozen by a dispute opened in its acceptance
\* window and not yet resolved, every buyer_accept and auto_release on it fails
\* and leaves the transaction as it was.
C4_FrozenWhileDisputed ==
    [][\A t \in frozen :
        (/\ Called("buyer_accept") \/ Called("auto_release")
         /\ response'.tx = t)
            => /\ ~Succeeded
               /\ TRANSACTIONS_DB'[t] = TRANSACTIONS_DB[t]]_vars

\* C5: funds_locked never goes back to false, it becomes true only in a
\* successful escrow_funds on that transaction, and escrow_funds on a
\* transaction whose funds are locked fails with "Funds already escrowed" and
\* changes no record.
C5_FundsLockedOnce ==
    [][\A t \in DOMAIN TRANSACTIONS_DB :
        /\ TRANSACTIONS_DB[t].funds_locked => TRANSACTIONS_DB'[t].funds_locked
        /\ (~TRANSACTIONS_DB[t].funds_locked /\ TRANSACTIONS_DB'[t].funds_locked)
            => (Called("escrow_funds") /\ response'.tx = t /\ Succeeded)
        /\ (/\ Called("escrow_funds")
            /\ response'.tx = t
            /\ TRANSACTIONS_DB[t].funds_locked)
            => /\ response'.code = 400
               /\ response'.detail = "Funds already escrowed"
               /\ UNCHANGED dbs]_vars

C5_Witness ==
    /\ response.op = "escrow_funds"
    /\ response.detail = "Funds already escrowed"
    /\ response.tx \in DOMAIN TRANSACTIONS_DB
    /\ TRANSACTIONS_DB[response.tx].funds_locked

\* C6: auto_release on a transaction that is already completed reports
\* success and changes nothing.
C6_AutoReleaseIdempotent ==
    [][\A t \in DOMAIN TRANSACTIONS_DB :
        (/\ Called("auto_release")
         /\ response'.tx = t
         /\ TRANSACTIONS_DB[t].status = "completed")
            => /\ Succeeded
               /\ TRANSACTIONS_DB'[t] = TRANSACTIONS_DB[t]]_vars

\* C7: every change of a transaction's status is an edge of the allowed graph.
C7_AllowedGraph ==
    [][\A t \in DOMAIN TRANSACTIONS_DB :
        TRANSACTIONS_DB'[t].status # TRANSACTIONS_DB[t].status
            => <<TRANSACTIONS_DB[t].status, TRANSACTIONS_DB'[t].status>>
                    \in AllowedEdges]_vars

\* C8: open_dispute on a transaction that is neither delivery_proof_submitted
\* nor in_acceptance_window fails, creates no dispute and changes no
\* transaction.
C8_DisputeOnlyAfterDelivery ==
    [][\A t \in DOMAIN TRANSACTIONS_DB :
        (/\ Called("open_dispute")
         /\ response'.tx = t
         /\ TRANSACTIONS_DB[t].status \notin
                {"delivery_proof_submitted", "in_acceptance_window"})
            => /\ ~Succeeded
               /\ DISPUTES_DB' = DISPUTES_DB
               /\ TRANSACTIONS_DB' = TRANSACTIONS_DB]_vars

\* C9: every transaction has at most one dispute that is not resolved.
C9_OneOpenDispute ==
    \A t \in DOMAIN TRANSACTIONS_DB : Cardinality(UnresolvedDisputes(t)) <= 1

\* C10: resolve_dispute on a resolved dispute fails and changes neither the
\* disputes nor the transactions.
C10_ResolveOnce ==
    [][\A d \in DOMAIN DISPUTES_DB :
        (/\ Called("resolve_dispute")
         /\ response'.dispute = d
         /\ DISPUTES_DB[d].status = "resolved")
            => /\ ~Succeeded
               /\ DISPUTES_DB' = DISPUTES_DB
               /\ TRANSACTIONS_DB' = TRANSACTIONS_DB]_vars

\* C11: escrow_funds on a transaction that is not pending with unlocked funds
\* fails and leaves its status and funds_locked as they were.
C11_EscrowOnlyFromPending ==
    [][\A t \in DOMAIN TRANSACTIONS_DB :
        (/\ Called("escrow_funds")
         /\ response'.tx = t
         /\ ~(TRANSACTIONS_DB[t].status = "pending" /\ ~TRANSACTIONS_DB[t].funds_locked))
            => /\ ~Succeeded
               /\ TRANSACTIONS_DB'[t].status = TRANSACTIONS_DB[t].status
               /\ TRANSACTIONS_DB'[t].funds_locked = TRANSACTIONS_DB[t].funds_locked]_vars

\* C12: submit_delivery_proof succeeds on a funds_escrowed transaction, which
\* becomes in_acceptance_window with a window of 48 hours, and fails on a
\* transaction in any other status, leaving its status and window alone.
C12_ProofOnlyFromEscrowed ==
    [][\A t \in DOMAIN TRANSACTIONS_DB :
        (Called("submit_delivery_proof") /\ response'.tx = t)
            => IF TRANSACTIONS_DB[t].status = "funds_escrowed"
               THEN /\ Succeeded
                    /\ TRANSACTIONS_DB'[t].status = "in_acceptance_window"
                    /\ TRANSACTIONS_DB'[t].acceptance_window_end
                        = TRANSACTIONS_DB'[t].acceptance_window_start
                            + AcceptanceWindowHours
               ELSE /\ ~Succeeded
                    /\ TRANSACTIONS_DB'[t] = TRANSACTIONS_DB[t]]_vars

\* C13: buyer_accept succeeds only on a transaction in its acceptance window
\* and for the transaction's buyer, and then completes it; a call by another
\* user fails with 403 and a call in another status fails, changing nothing.
C13_BuyerAcceptContract ==
    [][\A t \in DOMAIN TRANSACTIONS_DB :
        (Called("buyer_accept") /\ response'.tx = t)
            => /\ Succeeded
                    => /\ TRANSACTIONS_DB[t].status = "in_acceptance_window"
                       /\ response'.caller = TRANSACTIONS_DB[t].buyer_id
                       /\ TRANSACTIONS_DB'[t].status = "completed"
               /\ response'.caller # TRANSACTIONS_DB[t].buyer_id
                    => response'.code = 403 /\ UNCHANGED dbs
               /\ TRANSACTIONS_DB[t].status # "in_acceptance_window"
                    => ~Succeeded /\ UNCHANGED dbs]_vars

C13_Witness ==
    /\ response.op = "buyer_accept"
    /\ response.code = 200
    /\ response.tx \in DOMAIN TRANSACTIONS_DB
    /\ response.caller = TRANSACTIONS_DB[response.tx].buyer_id
    /\ TRANSACTIONS_DB[response.tx].status = "completed"

\* C14: auto_release succeeds only on a transaction that is in its acceptance
\* window, whose window has expired and on which no dispute is open, and a
\* failing auto_release changes no record.
C14_AutoReleaseAfterWindow ==
    [][\A t \in DOMAIN TRANSACTIONS_DB :
        (Called("auto_release") /\ response'.tx = t)
            => IF Succeeded
               THEN /\ TRANSACTIONS_DB[t].status = "in_acceptance_window"
                    /\ now >= TRANSACTIONS_DB[t].acceptance_window_end
                    /\ UnresolvedDisputes(t) = {}
               ELSE UNCHANGED dbs]_vars

\* The pairs of operations of a race at the window boundary, first one first.
RacingPairs ==
    {<<"buyer_accept", "auto_release">>, <<"auto_release", "buyer_accept">>,
     <<"open_dispute", "auto_release">>, <<"auto_release", "open_dispute">>}

\* C15: when two racing operations (buyer_accept and auto_release, or
\* open_dispute and auto_release) are served one directly after the other on
\* the same transaction and the first succeeded, the second fails and leaves
\* the transaction in the state the first one set.
C15_OneWinnerAtBoundary ==
    [][\A t \in DOMAIN TRANSACTIONS_DB :
        (/\ response.code = 200
         /\ response.tx = t
         /\ now' = now
         /\ response'.tx = t
         /\ <<response.op, response'.op>> \in RacingPairs)
            => /\ ~Succeeded
               /\ TRANSACTIONS_DB'[t] = TRANSACTIONS_DB[t]]_vars

\* C16 as stated: a create_transaction within the available quantity that
\* succeeds takes exactly its quantity and leaves the rest non-negative, and
\* one that exceeds the available quantity fails with "Insufficient quantity"
\* and changes no record.
C16_LoserGetsInsufficientQuantity ==
    [][\A a \in DOMAIN ASSETS_DB, b \in Buyers, q \in TxQuantities :
        create_escrow_transaction(a, b, q)
            => IF q <= ASSETS_DB[a].available_quantity_kg
               THEN Succeeded
                        => /\ ASSETS_DB'[a].available_quantity_kg
                                = ASSETS_DB[a].available_quantity_kg - q
                           /\ ASSETS_DB'[a].available_quantity_kg >= 0
               ELSE /\ ~Succeeded
                    /\ response'.detail = "Insufficient quantity"
                    /\ UNCHANGED dbs]_vars

\* C16: a create_transaction within the available quantity that succeeds takes
\* exactly its quantity and leaves the rest non-negative, and one that exceeds
\* the available quantity fails and changes no record: with "Insufficient
\* quantity" on an active asset, with "Asset not available for sale" on an
\* asset that is not active, as it is once a reservation has emptied it.
C16_NoJointOversell ==
    [][\A a \in DOMAIN ASSETS_DB, b \in Buyers, q \in TxQuantities :
        create_escrow_transaction(a, b, q)
            => IF q <= ASSETS_DB[a].available_quantity_kg
               THEN Succeeded
                        => /\ ASSETS_DB'[a].available_quantity_kg
                                = ASSETS_DB[a].available_quantity_kg - q
                           /\ ASSETS_DB'[a].available_quantity_kg >= 0
               ELSE /\ ~Succeeded
                    /\ response'.detail
                        = IF ASSETS_DB[a].status = "active"
                          THEN "Insufficient quantity"
                          ELSE "Asset not available for sale"
                    /\ UNCHANGED dbs]_vars

\* Two reservations of 1 kg have emptied the asset and the next request has
\* been turned away.
C16_Witness ==
    /\ response.op = "create_transaction"
    /\ response.detail = "Asset not available for sale"
    /\ \E a \in DOMAIN ASSETS_DB :
        /\ ASSETS_DB[a].available_quantity_kg = 0
        /\ ASSETS_DB[a].status = "in_escrow"
        /\ ActiveReservations(a) = ASSETS_DB[a].quantity_kg
        /\ Len(TRANSACTIONS_DB) = 2

\* C17: every asset's available_quantity_kg lies between 0 and its
\* quantity_kg, whatever quantities create_transaction has accepted.
C17_AvailableWithinQuantity ==
    \A a \in DOMAIN ASSETS_DB :
        /\ 0 <= ASSETS_DB[a].available_quantity_kg
        /\ ASSETS_DB[a].available_quantity_kg <= ASSETS_DB[a].quantity_kg

\* C18 as stated: a create_transaction for more than the asset's available
\* quantity fails with "Insufficient quantity", creates no transaction and
\* leaves the asset as it was.
C18_ExcessIsInsufficientQuantity ==
    [][\A a \in DOMAIN ASSETS_DB, b \in Buyers, q \in TxQuantities :
        (create_escrow_transaction(a, b, q)
            /\ q > ASSETS_DB[a].available_quantity_kg)
            => /\ response'.code = 400
               /\ response'.detail = "Insufficient quantity"
               /\ TRANSACTIONS_DB' = TRANSACTIONS_DB
               /\ ASSETS_DB'[a] = ASSETS_DB[a]]_vars

\* C18: a create_transaction for more than the asset's available quantity
\* fails with code 400, creates no transaction and leaves the asset as it was;
\* the error is "Insufficient quantity" exactly when the asset is active, and
\* "Asset not available for sale" otherwise.
C18_ExcessIsRejected ==
    [][\A a \in DOMAIN ASSETS_DB, b \in Buyers, q \in TxQuantities :
        (create_escrow_transaction(a, b, q)
            /\ q > ASSETS_DB[a].available_quantity_kg)
            => /\ response'.code = 400
               /\ (response'.detail = "Insufficient quantity")
                    = (ASSETS_DB[a].status = "active")
               /\ (response'.detail = "Asset not available for sale")
                    = (ASSETS_DB[a].status # "active")
               /\ TRANSACTIONS_DB' = TRANSACTIONS_DB
               /\ ASSETS_DB'[a] = ASSETS_DB[a]]_vars

\* After a reservation of 1 kg of the 2 kg, a request for 3 kg has been
\* refused and 1 kg is still available.
C18_Witness ==
    /\ response.op = "create_transaction"
    /\ response.detail = "Insufficient quantity"
    /\ Len(TRANSACTIONS_DB) = 1
    /\ \E a \in DOMAIN ASSETS_DB :
        /\ ASSETS_DB[a].status = "active"
        /\ ASSETS_DB[a].available_quantity_kg = 1
        /\ TRANSACTIONS_DB[1].asset_id = a

\* C19: create_transaction succeeds only on an active asset; a successful one
\* takes exactly the requested quantity from available_quantity_kg and sets
\* the asset's status to in_escrow if and only if nothing is left.
C19_ReserveContract ==
    [][\A a \in DOMAIN ASSETS_DB, b \in Buyers, q \in TxQuantities :
        (create_escrow_transaction(a, b, q) /\ Succeeded)
            => /\ ASSETS_DB[a].status = "active"
               /\ ASSETS_DB'[a].available_quantity_kg
                    = ASSETS_DB[a].available_quantity_kg - q
               /\ (ASSETS_DB'[a].status = "in_escrow")
                    = (ASSETS_DB'[a].available_quantity_kg = 0)
               /\ ASSETS_DB'[a].status \in {"active", "in_escrow"}]_vars

\* The reservation that took the last kilogram has succeeded.
C19_Witness ==
    /\ response.op = "create_transaction"
    /\ response.code = 200
    /\ response.tx \in DOMAIN TRANSACTIONS_DB
    /\ LET a == TRANSACTIONS_DB[response.tx].asset_id IN
        /\ ASSETS_DB[a].available_quantity_kg = 0
        /\ ASSETS_DB[a].status = "in_escrow"

\* C20: resolve_dispute succeeds only for the arbitrator currently assigned to
\* the dispute; a call by anyone else, or on a dispute without an arbitrator,
\* fails with 403 and changes neither the disputes nor the transactions.
C20_OnlyAssignedArbitratorResolves ==
    [][\A d \in DOMAIN DISPUTES_DB :
        (Called("resolve_dispute") /\ response'.dispute = d)
            => /\ Succeeded
                    => response'.caller = DISPUTES_DB[d].assigned_arbitrator_id
               /\ response'.caller # DISPUTES_DB[d].assigned_arbitrator_id
                    => /\ response'.code = 403
                       /\ DISPUTES_DB' = DISPUTES_DB
                       /\ TRANSACTIONS_DB' = TRANSACTIONS_DB]_vars

\* The assigned arbitrator has resolved the dispute.
C20_Witness ==
    /\ response.op = "resolve_dispute"
    /\ response.code = 200
    /\ response.dispute \in DOMAIN DISPUTES_DB
    /\ response.caller = DISPUTES_DB[response.dispute].assigned_arbitrator_id
    /\ DISPUTES_DB[response.dispute].status = "resolved"

\* C21: a successful resolve_dispute leaves the dispute resolved and the
\* transaction refunded when refund_percentage is 100, completed for every
\* other refund_percentage.
C21_ResolutionSetsStatuses ==
    [][(Called("resolve_dispute") /\ Succeeded)
        => \A d \in DOMAIN DISPUTES_DB, a \in Arbitrators, p \in PartialPercentages :
            resolve_dispute(d, a, p)
                => /\ DISPUTES_DB'[d].status = "resolved"
                   /\ TRANSACTIONS_DB'[DISPUTES_DB[d].transaction_id].status
                        = IF p = 100 THEN "refunded" ELSE "completed"]_vars

\* A dispute has been resolved with a partial refund and its transaction is
\* completed.
C21_Witness ==
    /\ response.op = "resolve_dispute"
    /\ response.code = 200
    /\ response.refund_amount_kes > 0
    /\ response.refund_amount_kes < TRANSACTIONS_DB[response.tx].total_amount_kes
    /\ DISPUTES_DB[response.dispute].status = "resolved"
    /\ TRANSACTIONS_DB[response.tx].status = "completed"

\* C22: after a successful resolve_dispute with refund_percentage 100 the
\* seller payout is 0, both as reported and as recorded on the transaction,
\* and the refund is the whole total.
C22_FullRefundPaysSellerNothing ==
    [][\A d \in DOMAIN DISPUTES_DB, a \in Arbitrators :
        (resolve_dispute(d, a, 100) /\ Succeeded)
            => LET t == DISPUTES_DB[d].transaction_id IN
               /\ response'.seller_payout_kes = 0
               /\ TRANSACTIONS_DB'[t].seller_payout_amount = 0
               /\ response'.refund_amount_kes = TRANSACTIONS_DB[t].total_amount_kes]_vars

\* C23: a successful resolve_dispute with refund_percentage 100 gives the
\* transaction's quantity_kg back to the asset's available_quantity_kg, and
\* an asset that was in_escrow is active again.
C23_FullRefundRestoresQuantity ==
    [][\A d \in DOMAIN DISPUTES_DB, a \in Arbitrators :
        (resolve_dispute(d, a, 100) /\ Succeeded)
            => LET t == DISPUTES_DB[d].transaction_id
                   asset_id == TRANSACTIONS_DB[t].asset_id
               IN /\ ASSETS_DB'[asset_id].available_quantity_kg
                        = ASSETS_DB[asset_id].available_quantity_kg
                            + TRANSACTIONS_DB[t].quantity_kg
                  /\ ASSETS_DB[asset_id].status = "in_escrow"
                        => ASSETS_DB'[asset_id].status = "active"]_vars

\* C24: a successful resolve_dispute with refund_percentage 0 pays the seller
\* the total less the platform fee, reported and recorded, refunds nothing
\* and leaves the transaction completed.
C24_NoRefundPaysSeller ==
    [][\A d \in DOMAIN DISPUTES_DB, a \in Arbitrators :
        (resolve_dispute(d, a, 0) /\ Succeeded)
            => LET t == DISPUTES_DB[d].transaction_id
                   payout == TRANSACTIONS_DB[t].total_amount_kes
                                - TRANSACTIONS_DB[t].platform_fee_kes
               IN /\ response'.seller_payout_kes = payout
                  /\ TRANSACTIONS_DB'[t].seller_payout_amount = payout
                  /\ response'.refund_amount_kes = 0
                  /\ DISPUTES_DB'[d].refund_amount_kes = 0
                  /\ TRANSACTIONS_DB'[t].status = "completed"]_vars

\* A dispute has been resolved without a refund.
C24_Witness ==
    /\ response.op = "resolve_dispute"
    /\ response.code = 200
    /\ response.refund_amount_kes = 0
    /\ response.seller_payout_kes > 0
    /\ TRANSACTIONS_DB[response.tx].status = "completed"
    /\ TRANSACTIONS_DB[response.tx].funds_locked

\* C25: a successful resolve_dispute with a partial refund refunds the buyer
\* total * refund_percentage / 100, pays the seller the rest less the
\* platform fee and leaves every asset's available_quantity_kg as it was.
C25_PartialRefundSplits ==
    [][\A d \in DOMAIN DISPUTES_DB, a \in Arbitrators,
          p \in {q \in PartialPercentages : 0 < q /\ q < 100} :
        (resolve_dispute(d, a, p) /\ Succeeded)
            => LET t == DISPUTES_DB[d].transaction_id
                   total == TRANSACTIONS_DB[t].total_amount_kes
                   fee == TRANSACTIONS_DB[t].platform_fee_kes
               IN /\ response'.refund_amount_kes * 100 = total * p
                  /\ DISPUTES_DB'[d].refund_amount_kes * 100 = total * p
                  /\ response'.seller_payout_kes
                        = total - response'.refund_amount_kes - fee
                  /\ TRANSACTIONS_DB'[t].seller_payout_amount
                        = response'.seller_payout_kes
                  /\ \A x \in DOMAIN ASSETS_DB :
                        ASSETS_DB'[x].available_quantity_kg
                            = ASSETS_DB[x].available_quantity_kg]_vars

\* A dispute on an escrowed transaction has been resolved with a partial
\* refund.
C25_Witness ==
    /\ response.op = "resolve_dispute"
    /\ response.code = 200
    /\ response.refund_amount_kes > 0
    /\ response.seller_payout_kes > 0
    /\ response.refund_amount_kes + response.seller_payout_kes
        + TRANSACTIONS_DB[response.tx].platform_fee_kes
            = TRANSACTIONS_DB[response.tx].total_amount_kes
    /\ TRANSACTIONS_DB[response.tx].funds_locked

\* C26: the refund recorded on every resolved dispute lies between 0 and the
\* total of its transaction.
C26_RefundWithinTotal ==
    \A d \in DOMAIN DISPUTES_DB :
        DISPUTES_DB[d].status = "resolved"
            => /\ 0 <= DISPUTES_DB[d].refund_amount_kes
               /\ DISPUTES_DB[d].refund_amount_kes
                    <= TRANSACTIONS_DB[DISPUTES_DB[d].transaction_id].total_amount_kes

\* C27: assign_arbitrator on a resolved dispute fails and leaves it resolved;
\* on an open or under_review dispute it succeeds, and assigning the
\* arbitrator already assigned to an under_review dispute changes nothing.
C27_AssignOnlyBeforeResolution ==
    [][\A d \in DOMAIN DISPUTES_DB, a \in Arbitrators :
        assign_arbitrator(d, a)
            => /\ DISPUTES_DB[d].status = "resolved"
                    => ~Succeeded /\ DISPUTES_DB'[d].status = "resolved"
               /\ DISPUTES_DB[d].status \in {"open", "under_review"}
                    => Succeeded
               /\ (/\ DISPUTES_DB[d].status = "under_review"
                   /\ DISPUTES_DB[d].assigned_arbitrator_id = a)
                    => DISPUTES_DB' = DISPUTES_DB]_vars

\* The operations of the state machine.
StateMachineOps ==
    {"create_transaction", "escrow_funds", "submit_delivery_proof",
     "buyer_accept", "auto_release", "open_dispute", "assign_arbitrator",
     "resolve_dispute", "publish"}

Disputed(t) == \E d \in DOMAIN DISPUTES_DB : DISPUTES_DB[d].transaction_id = t
Awaiting(t) ==
    /\ t \in DOMAIN TRANSACTIONS_DB
    /\ TRANSACTIONS_DB[t].status = "in_acceptance_window"
    /\ ~Disputed(t)

UnavailableAssetStatus == {"sold", "cancelled"}

C31_EscrowNeedsAvailableAsset ==
    [][\A t \in DOMAIN TRANSACTIONS_DB :
        (/\ Called("escrow_funds")
         /\ response'.tx = t
         /\ ASSETS_DB[TRANSACTIONS_DB[t].asset_id].status \in UnavailableAssetStatus)
            => /\ ~Succeeded
               /\ TRANSACTIONS_DB'[t].funds_locked = TRANSACTIONS_DB[t].funds_locked]_vars

\* C32: the available_quantity_kg of an existing asset changes only in a
\* successful create_transaction (a reservation) or in a successful
\* resolve_dispute that refunds in full (a release); no other operation,
\* create_asset with the id of an existing asset included, changes it.
C32_AvailableOnlyByReserveRelease ==
    [][\A a \in DOMAIN ASSETS_DB :
        ASSETS_DB'[a].available_quantity_kg # ASSETS_DB[a].available_quantity_kg
            => /\ Succeeded
               /\ \/ Called("create_transaction")
                  \/ /\ Called("resolve_dispute")
                     /\ TRANSACTIONS_DB'[response'.tx].status = "refunded"]_vars

\* C33: a successful create_transaction records a platform fee of 2% of the
\* total and a seller payout of total - fee, in status pending with
\* funds_locked false; a successful buyer_accept or auto_release pays the
\* seller exactly 98% of the transaction's total.
C33_FeeAndPayout ==
    [][/\ (Called("create_transaction") /\ Succeeded)
            => LET transaction == TRANSACTIONS_DB'[response'.tx] IN
               /\ response'.tx \notin DOMAIN TRANSACTIONS_DB
               /\ transaction.platform_fee_kes * 100
                    = transaction.total_amount_kes * PlatformFeePct
               /\ transaction.seller_payout_amount
                    = transaction.total_amount_kes - transaction.platform_fee_kes
               /\ transaction.status = "pending"
               /\ ~transaction.funds_locked
       /\ ((Called("buyer_accept") \/ Called("auto_release")) /\ Succeeded)
            => /\ TRANSACTIONS_DB'[response'.tx].status = "completed"
               /\ response'.seller_payout_kes * 100
                    = TRANSACTIONS_DB[response'.tx].total_amount_kes
                        * (100 - PlatformFeePct)]_vars

\* C34: create_asset with a verification score below the minimum fails and
\* stores nothing; every asset it accepts is stored with
\* available_quantity_kg = quantity_kg and status draft, whatever status the
\* request carried.
C34_CreateAssetContract ==
    [][\A id \in AssetIds, q \in AssetQuantities, p \in UnitPrices,
          c \in ConfidenceScores, s \in RequestStatuses :
        create_asset_listing(id, q, p, c, s)
            => IF c < MinConfidence
               THEN ~Succeeded /\ UNCHANGED dbs
               ELSE /\ Succeeded
                    /\ ASSETS_DB'[id].quantity_kg = q
                    /\ ASSETS_DB'[id].available_quantity_kg = q
                    /\ ASSETS_DB'[id].status = "draft"]_vars

\* C35: a transaction whose status is completed or refunded has its funds
\* locked.
C35_SettledHasFundsLocked ==
    \A t \in DOMAIN TRANSACTIONS_DB :
        TRANSACTIONS_DB[t].status \in {"completed", "refunded"}
            => TRANSACTIONS_DB[t].funds_locked

\* C36: a transaction's status is disputed if and only if some dispute on it
\* is not yet resolved.
C36_DisputedIffUnresolvedDispute ==
    \A t \in DOMAIN TRANSACTIONS_DB :
        TRANSACTIONS_DB[t].status = "disputed" <=> UnresolvedDisputes(t) # {}

\* C37: in every successful resolve_dispute the buyer's refund, the seller's
\* payout and the platform fee add up to the transaction's total, and none of
\* the three amounts is negative.
C37_EscrowConservation ==
    [][(Called("resolve_dispute") /\ Succeeded)
        => LET transaction == TRANSACTIONS_DB[response'.tx] IN
           /\ response'.refund_amount_kes + response'.seller_payout_kes
                + transaction.platform_fee_kes = transaction.total_amount_kes
           /\ response'.refund_amount_kes >= 0
           /\ response'.seller_payout_kes >= 0
           /\ transaction.platform_fee_kes >= 0]_vars

\* C38: an asset whose status is in_escrow has no available quantity left.
C38_InEscrowMeansFullyReserved ==
    \A a \in DOMAIN ASSETS_DB :
        ASSETS_DB[a].status = "in_escrow" => ASSETS_DB[a].available_quantity_kg = 0

\* C39: an asset is sold only if it has no available quantity and no
\* transaction on it is still in progress (pending, funds_escrowed,
\* in_acceptance_window or disputed), and publish never takes an asset out of
\* sold.
InProgress == {"pending", "funds_escrowed", "in_acceptance_window", "disputed"}

C39_SoldIsFinal ==
    /\ [](\A a \in DOMAIN ASSETS_DB :
            ASSETS_DB[a].status = "sold"
                => /\ ASSETS_DB[a].available_quantity_kg = 0
                   /\ \A t \in DOMAIN TRANSACTIONS_DB :
                        TRANSACTIONS_DB[t].asset_id = a
                            => TRANSACTIONS_DB[t].status \notin InProgress)
    /\ [][\A a \in DOMAIN ASSETS_DB :
            (Called("publish") /\ ASSETS_DB[a].status = "sold")
                => ASSETS_DB'[a].status = "sold"]_vars

\* C40: escrow_funds, submit_delivery_proof, buyer_accept, auto_release,
\* open_dispute and resolve_dispute on one transaction leave the status,
\* funds_locked, acceptance window and payout fields of every other
\* transaction unchanged, transactions on the same asset included.
PerTransactionOps ==
    {"escrow_funds", "submit_delivery_proof", "buyer_accept", "auto_release",
     "open_dispute", "resolve_dispute"}

C40_TransactionIsolation ==
    [][(\E op \in PerTransactionOps : Called(op))
        => \A u \in (DOMAIN TRANSACTIONS_DB) \ {response'.tx} :
            /\ TRANSACTIONS_DB'[u].status = TRANSACTIONS_DB[u].status
            /\ TRANSACTIONS_DB'[u].funds_locked = TRANSACTIONS_DB[u].funds_locked
            /\ TRANSACTIONS_DB'[u].acceptance_window_start
                = TRANSACTIONS_DB[u].acceptance_window_start
            /\ TRANSACTIONS_DB'[u].acceptance_window_end
                = TRANSACTIONS_DB[u].acceptance_window_end
            /\ TRANSACTIONS_DB'[u].buyer_accepted = TRANSACTIONS_DB[u].buyer_accepted
            /\ TRANSACTIONS_DB'[u].seller_payout_amount
                = TRANSACTIONS_DB[u].seller_payout_amount
            /\ TRANSACTIONS_DB'[u].platform_fee_kes
                = TRANSACTIONS_DB[u].platform_fee_kes]_vars

C40_Witness ==
    /\ response.op = "resolve_dispute"
    /\ response.code = 200
    /\ \E u \in (DOMAIN TRANSACTIONS_DB) \ {response.tx} :
        /\ TRANSACTIONS_DB[u].asset_id = TRANSACTIONS_DB[response.tx].asset_id
        /\ TRANSACTIONS_DB[u].status = "in_acceptance_window"

====
